---------------------------- MODULE Spec2Model ----------------------------
(***************************************************************************)
(* A model of the music-streaming backend: the match engine of             *)
(* youtube_service.py (_clean_title, _parse_title, _is_official_channel,   *)
(* _get_best_match, _filter_results) and the audio cache of app.py and     *)
(* youtube_service.py (get_audio, prepare_audio, cleanup_old_cache).       *)
(*                                                                         *)
(* A Python str is a sequence of one-character strings; the two dashes     *)
(* of the separator list are the characters "EnDash" and "EmDash".         *)
(***************************************************************************)
EXTENDS Integers, Sequences, FiniteSets, TLC

(* An optional value: <<>> is None, <<v>> is the value v.                  *)
None == <<>>

Some(v) == <<v>>

\* The elements of a sequence.
Range(seq) == {seq[i] : i \in 1..Len(seq)}

VARIABLES
    \* _clean_title applied to a title, and again to its result
    ctitle,      \* the title handed to _clean_title
    npieces,     \* how many fragments ctitle was put together from
    cleaned,     \* the successive results of _clean_title
    \* a song search
    song_query,  \* the query of the search
    song_items,  \* the items the provider returned, in its order
    song_match,  \* None, or Some(what _get_best_match returned)
    \* an artist or genre search
    filter_type,   \* the search_type of the search
    filter_items,  \* the items the provider returned, in its order
    filter_pos,    \* how many of the provider's items were gone through
    filter_skips,  \* how many of them the provider left out
    filter_result, \* None, or Some(what _filter_results returned)
    \* the audio cache
    cache_dir,   \* the cache directory: file name -> None or Some(file)
    clock,       \* time.time(), in seconds
    outtmpl,     \* self.ydl_opts['outtmpl'] of the one YouTubeService
    req,         \* what each thread is doing
    nreq,        \* how many requests may still begin
    nticks,      \* how many hours went by
    concurrent,  \* whether requests are served while another is in progress
    done,        \* Some(the request that the last step completed), or None
    last_evict,  \* Some(the eviction pass the last step ran), or None
    \* search_videos and the API keys
    api_key_count,     \* len(self.api_keys)
    current_key_index, \* self.current_key_index
    search_pc,         \* "idle", "request", "returned" or "raised"
    retries,           \* the retries argument of the call now running
    first_retries,     \* the retries argument of the caller's call
    requests,          \* the requests sent to the provider for the caller's call
    searches_left,     \* how many searches may still begin
    search_response    \* what the provider answered last

cleanVars == <<ctitle, npieces, cleaned>>
matchVars == <<song_query, song_items, song_match>>
filterVars == <<filter_type, filter_items, filter_pos, filter_skips, filter_result>>
cacheVars == <<cache_dir, clock, outtmpl, req, nreq, nticks, concurrent, done,
               last_evict>>
searchVars == <<api_key_count, current_key_index, search_pc, retries,
                first_retries, requests, searches_left, search_response>>
vars == <<ctitle, npieces, cleaned, song_query, song_items, song_match,
         filter_type, filter_items, filter_pos, filter_skips, filter_result,
         cache_dir, clock, outtmpl, req, nreq, nticks, concurrent, done,
         last_evict, api_key_count, current_key_index, search_pc, retries,
         first_retries, requests, searches_left, search_response>>

(* Each part of the model is checked with the other parts at rest.          *)
CleanIdle == ctitle = <<>> /\ npieces = 0 /\ cleaned = <<>>

MatchIdle == song_query = <<>> /\ song_items = <<>> /\ song_match = None

FilterIdle ==
    /\ filter_type = "artist"
    /\ filter_items = <<>>
    /\ filter_pos = 0
    /\ filter_skips = 0
    /\ filter_result = None

SearchIdle ==
    /\ api_key_count = 1
    /\ current_key_index = 0
    /\ search_pc = "idle"
    /\ retries = 0
    /\ first_retries = 0
    /\ requests = 0
    /\ searches_left = 0
    /\ search_response = "none"

---------------------------------------------------------------------------
(* Python's str operations, as the source uses them.                       *)

ToLower ==
    ("A" :> "a") @@ ("B" :> "b") @@ ("C" :> "c") @@ ("D" :> "d") @@ ("E" :> "e") @@
    ("F" :> "f") @@ ("G" :> "g") @@ ("H" :> "h") @@ ("I" :> "i") @@ ("J" :> "j") @@
    ("K" :> "k") @@ ("L" :> "l") @@ ("M" :> "m") @@ ("N" :> "n") @@ ("O" :> "o") @@
    ("P" :> "p") @@ ("Q" :> "q") @@ ("R" :> "r") @@ ("S" :> "s") @@ ("T" :> "t") @@
    ("U" :> "u") @@ ("V" :> "v") @@ ("W" :> "w") @@ ("X" :> "x") @@ ("Y" :> "y") @@
    ("Z" :> "z")

Letters == DOMAIN ToLower \cup {ToLower[c] : c \in DOMAIN ToLower}

DigitChars == {"0", "1", "2", "3", "4", "5", "6", "7", "8", "9"}

\* c.isalnum()
isalnum(c) == c \in Letters \cup DigitChars

\* c.isspace()
isspace(c) == c = " "

\* s.lower()
str_lower(s) == [i \in 1..Len(s) |-> IF s[i] \in DOMAIN ToLower THEN ToLower[s[i]] ELSE s[i]]

\* sub in s
str_contains(sub, s) ==
    \E i \in 0..(Len(s) - Len(sub)) : SubSeq(s, i + 1, i + Len(sub)) = sub

\* s.find(sub): the first index (from 1) at which sub occurs in s, 0 when it does not
str_find(sub, s) ==
    IF str_contains(sub, s)
    THEN 1 + CHOOSE i \in 0..(Len(s) - Len(sub)) :
                /\ SubSeq(s, i + 1, i + Len(sub)) = sub
                /\ \A j \in 0..(i - 1) : SubSeq(s, j + 1, j + Len(sub)) # sub
    ELSE 0

\* s.replace(old, ''): every non-overlapping occurrence of old, leftmost first
RECURSIVE str_replace(_, _)
str_replace(s, old) ==
    IF Len(s) < Len(old) \/ old = <<>> THEN s
    ELSE IF SubSeq(s, 1, Len(old)) = old
         THEN str_replace(SubSeq(s, Len(old) + 1, Len(s)), old)
         ELSE <<s[1]>> \o str_replace(Tail(s), old)

RECURSIVE str_lstrip(_)
str_lstrip(s) ==
    IF s # <<>> /\ isspace(s[1]) THEN str_lstrip(Tail(s)) ELSE s

RECURSIVE str_rstrip(_)
str_rstrip(s) ==
    IF s # <<>> /\ isspace(s[Len(s)]) THEN str_rstrip(SubSeq(s, 1, Len(s) - 1)) ELSE s

\* s.strip()
str_strip(s) == str_rstrip(str_lstrip(s))

\* s.split(): the whitespace-delimited words of s, in order
RECURSIVE str_split(_)
str_split(s) ==
    LET t == str_lstrip(s) IN
    IF t = <<>> THEN <<>>
    ELSE LET n == IF \E i \in 1..Len(t) : isspace(t[i])
                  THEN (CHOOSE i \in 1..Len(t) :
                            isspace(t[i]) /\ \A j \in 1..(i - 1) : ~isspace(t[j])) - 1
                  ELSE Len(t)
         IN <<SubSeq(t, 1, n)>> \o str_split(SubSeq(t, n + 1, Len(t)))

\* ''.join(c for c in s if c.isalnum() or c.isspace())
keep_alnum_space(s) == SelectSeq(s, LAMBDA c : isalnum(c) \/ isspace(c))

---------------------------------------------------------------------------
(* YouTubeService._clean_title                                             *)

replacements ==
    << <<"(","O","f","f","i","c","i","a","l"," ","V","i","d","e","o",")">>, <<"(","O","f","f","i","c","i","a","l"," ","M","u","s","i","c"," ","V","i","d","e","o",")">>, <<"(","O","f","f","i","c","i","a","l"," ","A","u","d","i","o",")">>,
       <<"[","O","f","f","i","c","i","a","l"," ","V","i","d","e","o","]">>, <<"[","O","f","f","i","c","i","a","l"," ","M","u","s","i","c"," ","V","i","d","e","o","]">>, <<"[","O","f","f","i","c","i","a","l"," ","A","u","d","i","o","]">>,
       <<"(","A","u","d","i","o",")">>, <<"[","A","u","d","i","o","]">>, <<"(","L","y","r","i","c","s",")">>, <<"[","L","y","r","i","c","s","]">>,
       <<"(","O","f","f","i","c","i","a","l"," ","L","y","r","i","c"," ","V","i","d","e","o",")">>, <<"[","O","f","f","i","c","i","a","l"," ","L","y","r","i","c"," ","V","i","d","e","o","]">>,
       <<"(","O","f","f","i","c","i","a","l"," ","V","i","s","u","a","l","i","z","e","r",")">>, <<"[","O","f","f","i","c","i","a","l"," ","V","i","s","u","a","l","i","z","e","r","]">>,
       <<"(","O","f","f","i","c","i","a","l",")">>, <<"[","O","f","f","i","c","i","a","l","]">>, <<"(","H","D",")">>, <<"[","H","D","]">>,
       <<"(","H","Q",")">>, <<"[","H","Q","]">>, <<"(","4","K",")">>, <<"[","4","K","]">> >>

\* for text in replacements[k..]: title = title.replace(text, '')
RECURSIVE remove_tokens(_, _)
remove_tokens(title, k) ==
    IF k > Len(replacements) THEN title
    ELSE remove_tokens(str_replace(title, replacements[k]), k + 1)

\* A slip of the loop body: title.replace(text, '', 1) removes one occurrence only.
RECURSIVE remove_tokens_once(_, _)
remove_tokens_once(title, k) ==
    IF k > Len(replacements) THEN title
    ELSE LET at == str_find(replacements[k], title) IN
         remove_tokens_once(
            IF at = 0 THEN title
            ELSE SubSeq(title, 1, at - 1)
                     \o SubSeq(title, at + Len(replacements[k]), Len(title)),
            k + 1)

_clean_title_first_only(title) == str_strip(remove_tokens_once(title, 1))

_clean_title(title) == str_strip(remove_tokens(title, 1))

---------------------------------------------------------------------------
(* A search result item: videoId, title and channelTitle, and the set of   *)
(* keys the provider left out of it.                                       *)
Candidate(vid, title, channel) ==
    [videoId |-> vid, title |-> title, channelTitle |-> channel, missing |-> {}]

---------------------------------------------------------------------------
(* YouTubeService._parse_title                                             *)

separators ==
    << <<" ","-"," ">>, <<" ","EnDash"," ">>, <<" ","EmDash"," ">>, <<" ","|"," ">>, <<" ","/","/"," ">>, <<" ","~"," ">> >>

\* parts = title.split(separator, 1), then the three returns of the loop body
split_on(title, channel, separator) ==
    LET at     == str_find(separator, title)
        artist == SubSeq(title, 1, at - 1)
        song   == SubSeq(title, at + Len(separator), Len(title))
    IN  IF str_contains(str_lower(channel), str_lower(artist))
        THEN [artist |-> Some(str_strip(artist)), song |-> str_strip(song)]
        ELSE IF str_contains(str_lower(channel), str_lower(song))
        THEN [artist |-> Some(str_strip(song)), song |-> str_strip(artist)]
        ELSE [artist |-> Some(str_strip(artist)), song |-> str_strip(song)]

_parse_title(title, channel) ==
    IF \E k \in 1..Len(separators) : str_contains(separators[k], title)
    THEN split_on(title, channel,
                  separators[CHOOSE k \in 1..Len(separators) :
                                 /\ str_contains(separators[k], title)
                                 /\ \A j \in 1..(k - 1) :
                                        ~str_contains(separators[j], title)])
    ELSE IF str_contains(str_lower(channel), str_lower(title))
    THEN [artist |-> Some(channel), song |-> str_strip(str_replace(title, channel))]
    ELSE [artist |-> None, song |-> title]

---------------------------------------------------------------------------
(* YouTubeService._is_official_channel                                     *)

official_keywords ==
    << <<"o","f","f","i","c","i","a","l">>, <<"v","e","v","o">>, <<"r","e","c","o","r","d","s">>, <<"m","u","s","i","c">>,
       <<"e","n","t","e","r","t","a","i","n","m","e","n","t">>, <<"l","a","b","e","l">>, <<"s","t","u","d","i","o">> >>

\* artist_name is None, or Some(name)
_is_official_channel(channel_title, artist_name) ==
    LET channel_lower == str_lower(channel_title) IN
    \/ str_contains(<<"v","e","v","o">>, channel_lower)
    \/ \E k \in 3..7 : str_contains(official_keywords[k], channel_lower)
    \/ str_contains(<<"o","f","f","i","c","i","a","l">>, channel_lower)
    \/ /\ artist_name # None
       /\ artist_name[1] # <<>>
       /\ LET artist_lower  == str_strip(keep_alnum_space(str_lower(artist_name[1])))
              channel_clean == str_strip(keep_alnum_space(channel_lower))
          IN  \/ str_contains(artist_lower, channel_clean)
              \/ str_contains(channel_clean, artist_lower)

---------------------------------------------------------------------------
(* YouTubeService._get_best_match                                          *)

skip_keywords ==
    << <<"c","o","v","e","r">>, <<"k","a","r","a","o","k","e">>, <<"i","n","s","t","r","u","m","e","n","t","a","l">>, <<"r","e","m","i","x">>, <<"l","i","v","e">>, <<"c","o","n","c","e","r","t">>,
       <<"r","e","a","c","t","i","o","n">>, <<"r","e","v","i","e","w">>, <<"t","u","t","o","r","i","a","l">>, <<"l","e","s","s","o","n">>, <<"h","o","w"," ","t","o">>,
       <<"b","e","h","i","n","d"," ","t","h","e"," ","s","c","e","n","e","s">>, <<"a","c","o","u","s","t","i","c">>, <<"p","i","a","n","o"," ","v","e","r","s","i","o","n">>, <<"g","u","i","t","a","r"," ","v","e","r","s","i","o","n">>,
       <<"d","r","u","m"," ","c","o","v","e","r">>, <<"b","a","s","s"," ","c","o","v","e","r">>, <<"e","x","t","e","n","d","e","d">>, <<"e","d","i","t">>, <<"m","i","x">>, <<"m","a","s","h","u","p">>,
       <<"m","e","d","l","e","y">>, <<"t","r","i","b","u","t","e">> >>

\* any(keyword in title.lower() for keyword in skip_keywords)
has_skip_keyword(title) ==
    LET title_lower == str_lower(title) IN
    \E k \in 1..Len(skip_keywords) : str_contains(skip_keywords[k], title_lower)

\* query_clean and song_clean
clean_for_compare(s) == str_strip(keep_alnum_space(str_lower(s)))

\* title_parts['artist'] or channel
artist_or_channel(title_parts, channel) ==
    IF title_parts.artist = None \/ title_parts.artist[1] = <<>>
    THEN channel
    ELSE title_parts.artist[1]

\* A slip of the loop: the skip-keyword test left out.
is_eligible_no_skip(item) ==
    LET title_parts == _parse_title(item.title, item.channelTitle) IN
    _is_official_channel(item.channelTitle,
                         Some(artist_or_channel(title_parts, item.channelTitle)))

\* The candidate passes both `continue` tests of the loop.
is_eligible(item) ==
    LET title_parts == _parse_title(item.title, item.channelTitle) IN
    /\ _is_official_channel(item.channelTitle,
                            Some(artist_or_channel(title_parts, item.channelTitle)))
    /\ ~has_skip_keyword(item.title)

\* The score of the loop body, from "score = 0" to the last bonus.
match_score(query, item) ==
    LET query_lower   == str_lower(query)
        split_query   == str_split(query_lower)
        query_words   == {split_query[i] : i \in 1..Len(split_query)}
        query_clean   == clean_for_compare(query)
        song_title    == _parse_title(item.title, item.channelTitle).song
        song_clean    == clean_for_compare(song_title)
        split_song    == str_split(song_clean)
        song_words    == {split_song[i] : i \in 1..Len(split_song)}
        channel_lower == str_lower(item.channelTitle)
        title_lower   == str_lower(item.title)
    IN  IF song_clean = query_clean THEN 100
        ELSE Cardinality(query_words \cap song_words) * 10
             + (IF str_contains(query_clean, song_clean)
                   \/ str_contains(song_clean, query_clean) THEN 20 ELSE 0)
             + (IF str_contains(<<"v","e","v","o">>, channel_lower) THEN 15
                ELSE IF str_contains(<<"o","f","f","i","c","i","a","l">>, channel_lower) THEN 10 ELSE 0)
             + (IF str_contains(<<"o","f","f","i","c","i","a","l"," ","a","u","d","i","o">>, title_lower) THEN 5
                ELSE IF str_contains(<<"o","f","f","i","c","i","a","l"," ","m","u","s","i","c"," ","v","i","d","e","o">>, title_lower) THEN 3
                ELSE 0)

\* The loop over search_results from item k on, with best_match and highest_score
\* as they stand; item['snippet']['title'] raises KeyError on an item without it.
RECURSIVE best_match_loop(_, _, _, _, _)
best_match_loop(query, search_results, k, best_match, highest_score) ==
    IF k > Len(search_results) THEN [raised |-> FALSE, best |-> best_match]
    ELSE LET item == search_results[k] IN
         IF item.missing \cap {"snippet", "title", "channelTitle"} # {}
         THEN [raised |-> TRUE, best |-> None]
         ELSE IF ~is_eligible(item)
         THEN best_match_loop(query, search_results, k + 1, best_match, highest_score)
         ELSE IF match_score(query, item) > highest_score
         THEN best_match_loop(query, search_results, k + 1,
                              Some(item), match_score(query, item))
         ELSE best_match_loop(query, search_results, k + 1, best_match, highest_score)

_get_best_match(query, search_results) ==
    best_match_loop(query, search_results, 1, None, -1)

---------------------------------------------------------------------------
(* Song searches: a query and the provider's result list, at most          *)
(* MaxCands items, no video twice.                                         *)

MaxCands == 3

Queries == { <<"S","h","a","p","e"," ","o","f"," ","Y","o","u">>, <<"S","h","a","p","e"," ","o","f"," ","Y","o","u","!">>, <<"a"," ","b"," ","c"," ","d"," ","e"," ","f"," ","g">> }

CandidatePool ==
    { Candidate(<<"v","1">>, <<"E","d"," ","S","h","e","e","r","a","n"," ","-"," ","S","h","a","p","e"," ","o","f"," ","Y","o","u"," ","(","O","f","f","i","c","i","a","l"," ","M","u","s","i","c"," ","V","i","d","e","o",")">>, <<"E","d"," ","S","h","e","e","r","a","n">>),
      Candidate(<<"v","2">>, <<"S","h","a","p","e"," ","o","f"," ","Y","o","u"," ","-"," ","P","i","a","n","o"," ","C","o","v","e","r">>, <<"P","i","a","n","o","C","o","v","e","r","s">>),
      Candidate(<<"v","3">>, <<"S","h","a","p","e"," ","o","f"," ","Y","o","u">>, <<"E","d","S","h","e","e","r","a","n","V","E","V","O">>),
      Candidate(<<"v","4">>, <<"S","h","a","p","e"," ","o","f"," ","Y","o","u"," ","L","i","v","e">>, <<"E","d","S","h","e","e","r","a","n","V","E","V","O">>),
      Candidate(<<"v","5">>, <<"S","h","a","p","e"," ","o","f"," ","Y","o","u"," ","-"," ","E","d"," ","S","h","e","e","r","a","n">>, <<"L","y","r","i","c","s","H","u","b">>),
      Candidate(<<"v","6">>, <<"a"," ","b"," ","c"," ","d"," ","e"," ","f"," ","g">>, <<"A","l","p","h","a","b","e","t"," ","O","f","f","i","c","i","a","l">>),
      Candidate(<<"v","7">>, <<"a"," ","b"," ","c"," ","d"," ","e"," ","f"," ","g"," ","h">>, <<"A","l","p","h","a","b","e","t","V","E","V","O">>),
      Candidate(<<"v","8">>, <<"S","h","a","p","e"," ","o","f"," ","Y","o","u">>, <<"F","a","n"," ","U","p","l","o","a","d","s">>),
      [Candidate(<<"v","9">>, <<"S","h","a","p","e">>, <<"E","d","S","h","e","e","r","a","n","V","E","V","O">>) EXCEPT !.missing = {"title"}] }

\* The provider returns one more item.
AddCandidate ==
    /\ song_match = None
    /\ Len(song_items) < MaxCands
    /\ \E item \in CandidatePool :
          /\ \A i \in 1..Len(song_items) : song_items[i].videoId # item.videoId
          /\ song_items' = Append(song_items, item)
    /\ UNCHANGED <<song_query, song_match, cleanVars, filterVars, cacheVars,
                   searchVars>>

\* best_match = self._get_best_match(query, items)
GetBestMatch ==
    /\ song_match = None
    /\ song_match' = Some(_get_best_match(song_query, song_items))
    /\ UNCHANGED <<song_query, song_items, cleanVars, filterVars, cacheVars,
                   searchVars>>

\* The call of _is_official_channel in the loop of _get_best_match.
official_for_match(item) ==
    _is_official_channel(
        item.channelTitle,
        Some(artist_or_channel(_parse_title(item.title, item.channelTitle),
                               item.channelTitle)))

\* The normalized song title of the item equals the normalized query.
is_exact_match(query, item) ==
    clean_for_compare(_parse_title(item.title, item.channelTitle).song)
        = clean_for_compare(query)

\* The search returned an item.
MatchReturned ==
    /\ song_match # None
    /\ ~song_match[1].raised
    /\ song_match[1].best # None

\* C1: the candidate _get_best_match returns never has a skip keyword in its
\* lower-cased title and never fails _is_official_channel.
C1_NeverExcluded ==
    MatchReturned =>
        /\ ~has_skip_keyword(song_match[1].best[1].title)
        /\ official_for_match(song_match[1].best[1])

\* A candidate was returned from a list that also held a candidate with a skip
\* keyword and one of a channel that is not official.
C1_Witness ==
    /\ MatchReturned
    /\ \E i \in 1..Len(song_items) :
          /\ song_items[i].missing = {}
          /\ has_skip_keyword(song_items[i].title)
          /\ official_for_match(song_items[i])
    /\ \E i \in 1..Len(song_items) :
          /\ song_items[i].missing = {}
          /\ ~has_skip_keyword(song_items[i].title)
          /\ ~official_for_match(song_items[i])

\* C2: an eligible exact match scores exactly 100, every other eligible candidate
\* scores less than 100, and when an exact match is eligible an exact match is
\* returned.
C2_ExactMatchWins ==
    (song_match # None /\ ~song_match[1].raised) =>
        /\ \A i \in 1..Len(song_items) :
              is_eligible(song_items[i]) =>
                  IF is_exact_match(song_query, song_items[i])
                  THEN match_score(song_query, song_items[i]) = 100
                  ELSE match_score(song_query, song_items[i]) < 100
        /\ (\E i \in 1..Len(song_items) :
                is_eligible(song_items[i]) /\ is_exact_match(song_query, song_items[i]))
            => /\ song_match[1].best # None
               /\ is_exact_match(song_query, song_match[1].best[1])

---------------------------------------------------------------------------
(* YouTubeService._is_valid_result and _filter_results                     *)

_is_valid_result(item) ==
    /\ "id" \notin item.missing
    /\ "videoId" \notin item.missing
    /\ "snippet" \notin item.missing
    /\ "title" \notin item.missing
    /\ "channelTitle" \notin item.missing
    /\ "thumbnails" \notin item.missing

\* A slip of the genre branch: the channel is compared as written, not lower-cased.
RECURSIVE filter_loop_case_sensitive(_, _, _, _, _, _)
filter_loop_case_sensitive(items, search_type, k, filtered_results, seen_titles, seen_artists) ==
    IF k > Len(items) THEN filtered_results
    ELSE LET item        == items[k]
             clean_title == _clean_title(item.title)
             is_genre    == search_type = "genre"
         IN  IF ~_is_valid_result(item) \/ ~_is_official_channel(item.channelTitle, None)
             THEN filter_loop_case_sensitive(items, search_type, k + 1,
                                             filtered_results, seen_titles, seen_artists)
             ELSE IF is_genre /\ item.channelTitle \in seen_artists
             THEN filter_loop_case_sensitive(items, search_type, k + 1,
                                             filtered_results, seen_titles, seen_artists)
             ELSE IF str_lower(clean_title) \in seen_titles
             THEN filter_loop_case_sensitive(
                      items, search_type, k + 1, filtered_results, seen_titles,
                      IF is_genre THEN seen_artists \cup {item.channelTitle}
                      ELSE seen_artists)
             ELSE IF Len(filtered_results) + 1 >= 10
             THEN Append(filtered_results, item)
             ELSE filter_loop_case_sensitive(
                      items, search_type, k + 1, Append(filtered_results, item),
                      seen_titles \cup {str_lower(clean_title)},
                      IF is_genre THEN seen_artists \cup {item.channelTitle}
                      ELSE seen_artists)

\* A slip of the limit: "> 10" for ">= 10".
RECURSIVE filter_loop_limit_off_by_one(_, _, _, _, _, _)
filter_loop_limit_off_by_one(items, search_type, k, filtered_results, seen_titles, seen_artists) ==
    IF k > Len(items) THEN filtered_results
    ELSE LET item         == items[k]
             clean_title  == _clean_title(item.title)
             is_genre     == search_type = "genre"
             artist_lower == str_lower(item.channelTitle)
         IN  IF ~_is_valid_result(item) \/ ~_is_official_channel(item.channelTitle, None)
             THEN filter_loop_limit_off_by_one(items, search_type, k + 1,
                                               filtered_results, seen_titles, seen_artists)
             ELSE IF is_genre /\ artist_lower \in seen_artists
             THEN filter_loop_limit_off_by_one(items, search_type, k + 1,
                                               filtered_results, seen_titles, seen_artists)
             ELSE IF str_lower(clean_title) \in seen_titles
             THEN filter_loop_limit_off_by_one(
                      items, search_type, k + 1, filtered_results, seen_titles,
                      IF is_genre THEN seen_artists \cup {artist_lower} ELSE seen_artists)
             ELSE IF Len(filtered_results) + 1 > 10
             THEN Append(filtered_results, item)
             ELSE filter_loop_limit_off_by_one(
                      items, search_type, k + 1, Append(filtered_results, item),
                      seen_titles \cup {str_lower(clean_title)},
                      IF is_genre THEN seen_artists \cup {artist_lower} ELSE seen_artists)

\* The loop over items from item k on, with filtered_results, seen_titles and
\* seen_artists as they stand.
RECURSIVE filter_loop(_, _, _, _, _, _)
filter_loop(items, search_type, k, filtered_results, seen_titles, seen_artists) ==
    IF k > Len(items) THEN filtered_results
    ELSE LET item         == items[k]
             clean_title  == _clean_title(item.title)
             is_genre     == search_type = "genre"
             artist_lower == str_lower(item.channelTitle)
         IN  IF ~_is_valid_result(item) \/ ~_is_official_channel(item.channelTitle, None)
             THEN filter_loop(items, search_type, k + 1,
                              filtered_results, seen_titles, seen_artists)
             ELSE IF is_genre /\ artist_lower \in seen_artists
             THEN filter_loop(items, search_type, k + 1,
                              filtered_results, seen_titles, seen_artists)
             ELSE IF str_lower(clean_title) \in seen_titles
             THEN filter_loop(items, search_type, k + 1, filtered_results, seen_titles,
                              IF is_genre THEN seen_artists \cup {artist_lower}
                              ELSE seen_artists)
             ELSE IF Len(filtered_results) + 1 >= 10
             THEN Append(filtered_results, item)
             ELSE filter_loop(items, search_type, k + 1, Append(filtered_results, item),
                              seen_titles \cup {str_lower(clean_title)},
                              IF is_genre THEN seen_artists \cup {artist_lower}
                              ELSE seen_artists)

_filter_results(items, search_type) == filter_loop(items, search_type, 1, <<>>, {}, {})

---------------------------------------------------------------------------
(* Artist and genre searches: the provider's list is its first items of    *)
(* ProviderItem with at most MaxSkips of them left out.                    *)

MaxItems == 15

MaxSkips == 2

SearchTypes == {"artist", "genre", "playlist"}

AtoZ ==
    << "A", "B", "C", "D", "E", "F", "G", "H", "I", "J", "K", "L", "M",
       "N", "O", "P", "Q", "R", "S", "T", "U", "V", "W", "X", "Y", "Z" >>

\* The i-th item the provider has for the search.
ProviderItem(i) ==
    CASE i = 1 -> Candidate(<<"f","1">>, <<"S","o","n","g"," ","A"," ","(","H","D",")">>, <<"A","V","E","V","O">>)
      [] i = 2 -> Candidate(<<"f","2">>, <<"s","o","n","g"," ","a">>, <<"a","v","e","v","o">>)
      [] i = 3 -> Candidate(<<"f","3">>, <<"S","o","n","g"," ","B">>, <<"F","a","n"," ","P","a","g","e">>)
      [] i = 4 -> [Candidate(<<"f","4">>, <<"S","o","n","g"," ","X">>, <<"X"," ","M","u","s","i","c">>)
                      EXCEPT !.missing = {"thumbnails"}]
      [] i = 5 -> Candidate(<<"f","5">>, <<"S","o","n","g"," ","A"," ","[","H","D","]">>, <<"B"," ","R","e","c","o","r","d","s">>)
      [] i = 6 -> Candidate(<<"f","6">>, <<"S","o","n","g"," ","C">>, <<"b"," ","r","e","c","o","r","d","s">>)
      [] OTHER -> Candidate(<<"f", AtoZ[((i - 3) % 26) + 1]>>,
                            <<"S","o","n","g"," ">> \o <<AtoZ[((i - 4) % 26) + 1]>>,
                            <<AtoZ[((i - 4) % 26) + 1]>> \o <<" ","M","u","s","i","c">>)

\* The provider returns its next item.
TakeItem ==
    /\ filter_result = None
    /\ filter_pos < MaxItems
    /\ filter_pos' = filter_pos + 1
    /\ filter_items' = Append(filter_items, ProviderItem(filter_pos + 1))
    /\ UNCHANGED <<filter_type, filter_skips, filter_result, cleanVars, matchVars,
                   cacheVars, searchVars>>

\* The provider leaves its next item out.
SkipItem ==
    /\ filter_result = None
    /\ filter_pos < MaxItems
    /\ filter_skips < MaxSkips
    /\ filter_pos' = filter_pos + 1
    /\ filter_skips' = filter_skips + 1
    /\ UNCHANGED <<filter_type, filter_items, filter_result, cleanVars, matchVars,
                   cacheVars, searchVars>>

\* return self._filter_results(items, search_type)
FilterResults ==
    /\ filter_result = None
    /\ filter_result' = Some(_filter_results(filter_items, filter_type))
    /\ UNCHANGED <<filter_type, filter_items, filter_pos, filter_skips,
                   cleanVars, matchVars, cacheVars, searchVars>>

\* a is b with some of its elements left out.
RECURSIVE IsSubsequence(_, _)
IsSubsequence(a, b) ==
    IF a = <<>> THEN TRUE
    ELSE IF b = <<>> THEN FALSE
    ELSE IF Head(a) = Head(b) THEN IsSubsequence(Tail(a), Tail(b))
    ELSE IsSubsequence(a, Tail(b))

\* C8: in "genre" mode no two results of _filter_results have channel names that
\* are equal when compared case-insensitively.
C8_GenreChannelsDistinct ==
    (filter_result # None /\ filter_type = "genre") =>
        \A i, j \in 1..Len(filter_result[1]) :
            i # j => str_lower(filter_result[1][i].channelTitle)
                        # str_lower(filter_result[1][j].channelTitle)

\* A genre search kept several results out of a list in which two valid official
\* candidates had the same channel name up to case.
C8_Witness ==
    /\ filter_result # None
    /\ filter_type = "genre"
    /\ Len(filter_result[1]) >= 2
    /\ \E i, j \in 1..Len(filter_items) :
          /\ i < j
          /\ _is_valid_result(filter_items[i]) /\ _is_valid_result(filter_items[j])
          /\ _is_official_channel(filter_items[i].channelTitle, None)
          /\ filter_items[i].channelTitle # filter_items[j].channelTitle
          /\ str_lower(filter_items[i].channelTitle)
                = str_lower(filter_items[j].channelTitle)

\* C9: in every mode the result of _filter_results is a subsequence of the input
\* and has at most 10 elements.
C9_SubsequenceAtMostTen ==
    filter_result # None =>
        /\ IsSubsequence(filter_result[1], filter_items)
        /\ Len(filter_result[1]) <= 10

\* The limit cut the result: the list held more than 10 candidates that pass every
\* test of the loop, and 10 were returned.
C9_Witness ==
    /\ filter_result # None
    /\ filter_type = "artist"
    /\ Len(filter_result[1]) = 10
    /\ filter_result[1][10] # filter_items[Len(filter_items)]
    /\ LET last == filter_items[Len(filter_items)] IN
       /\ _is_valid_result(last)
       /\ _is_official_channel(last.channelTitle, None)
       /\ \A i \in 1..(Len(filter_items) - 1) :
              str_lower(_clean_title(filter_items[i].title))
                  # str_lower(_clean_title(last.title))

\* The candidate at place j was returned.
Returned(j) == filter_items[j] \in Range(filter_result[1])

\* The candidate at place j passed the validity and official-channel tests, was
\* not returned, and no returned candidate before it has its cleaned title.
DroppedNotForTitle(j) ==
    /\ _is_valid_result(filter_items[j])
    /\ _is_official_channel(filter_items[j].channelTitle, None)
    /\ ~Returned(j)
    /\ \A i \in 1..(j - 1) :
          Returned(i) => str_lower(_clean_title(filter_items[i].title))
                            # str_lower(_clean_title(filter_items[j].title))

\* C18: in "genre" mode a valid official candidate is dropped because of its
\* channel only when an earlier candidate of the same channel, compared
\* case-insensitively, is in the returned list.
C18_DroppedOnlyForReturnedChannel ==
    (filter_result # None /\ filter_type = "genre" /\ Len(filter_result[1]) < 10) =>
        \A j \in 1..Len(filter_items) :
            DroppedNotForTitle(j) =>
                \E i \in 1..(j - 1) :
                    /\ Returned(i)
                    /\ str_lower(filter_items[i].channelTitle)
                          = str_lower(filter_items[j].channelTitle)

---------------------------------------------------------------------------
(* Further claims about song searches.                                     *)

\* The loop of _get_best_match can read the item: it has the keys the loop
\* subscripts.
is_readable(item) == item.missing \cap {"snippet", "title", "channelTitle"} = {}

\* The list with the items that lack a required key removed.
without_malformed(items) == SelectSeq(items, _is_valid_result)

\* C11: on a list that holds items without a required key, _get_best_match does
\* not raise and returns what it returns on the list with those items removed.
C11_MalformedSkipped ==
    song_match # None =>
        /\ ~song_match[1].raised
        /\ song_match[1] = _get_best_match(song_query, without_malformed(song_items))

\* The places of the list whose candidates pass both tests of the loop.
EligiblePlaces ==
    {i \in 1..Len(song_items) :
        is_readable(song_items[i]) /\ is_eligible(song_items[i])}

\* The earliest place among the eligible ones of the highest score.
EarliestBestPlace ==
    CHOOSE i \in EligiblePlaces :
        \A j \in EligiblePlaces :
            \/ match_score(song_query, song_items[j])
                  < match_score(song_query, song_items[i])
            \/ /\ match_score(song_query, song_items[j])
                    = match_score(song_query, song_items[i])
               /\ i <= j

\* C14: _get_best_match returns None, and raises nothing, exactly when no
\* candidate is eligible; otherwise it returns the earliest of the eligible
\* candidates of the highest score.
C14_EarliestMaximum ==
    song_match # None =>
        /\ ~song_match[1].raised
        /\ IF EligiblePlaces = {}
           THEN song_match[1].best = None
           ELSE song_match[1].best = Some(song_items[EarliestBestPlace])

\* The words of a string: the set of its whitespace-delimited tokens.
words_of(s) == LET split == str_split(s) IN {split[i] : i \in 1..Len(split)}

\* The score C15 states for a candidate that is not an exact match.
stated_score(query, item) ==
    LET query_clean   == clean_for_compare(query)
        song_clean    == clean_for_compare(
                             _parse_title(item.title, item.channelTitle).song)
        channel_lower == str_lower(item.channelTitle)
        title_lower   == str_lower(item.title)
    IN  Cardinality(words_of(query_clean) \cap words_of(song_clean)) * 10
        + (IF str_contains(query_clean, song_clean)
              \/ str_contains(song_clean, query_clean) THEN 20 ELSE 0)
        + (IF str_contains(<<"v","e","v","o">>, channel_lower) THEN 15
           ELSE IF str_contains(<<"o","f","f","i","c","i","a","l">>, channel_lower) THEN 10 ELSE 0)
        + (IF str_contains(<<"o","f","f","i","c","i","a","l"," ","a","u","d","i","o">>, title_lower) THEN 5
           ELSE IF str_contains(<<"o","f","f","i","c","i","a","l"," ","m","u","s","i","c"," ","v","i","d","e","o">>, title_lower) THEN 3
           ELSE 0)

\* C15: the score of every eligible candidate that is not an exact match is 10
\* for each word the normalized query and the normalized song title share, plus
\* the containment, channel and title bonuses.
C15_ScoreOfNormalizedWords ==
    song_match # None =>
        \A i \in EligiblePlaces :
            ~is_exact_match(song_query, song_items[i]) =>
                match_score(song_query, song_items[i])
                    = stated_score(song_query, song_items[i])

\* The channel name holds none of the official keywords, and _parse_title finds
\* no artist in the title.
NoKeywordNoArtist(item) ==
    /\ \A k \in 1..Len(official_keywords) :
          ~str_contains(official_keywords[k], str_lower(item.channelTitle))
    /\ _parse_title(item.title, item.channelTitle).artist = None

\* C16: a candidate of a channel without an official keyword, in whose title
\* _parse_title finds no artist, fails the official-channel test and is never
\* returned.
C16_NoArtistNoKeywordExcluded ==
    /\ song_match # None => \A i \in 1..Len(song_items) :
          (is_readable(song_items[i]) /\ NoKeywordNoArtist(song_items[i]))
              => ~official_for_match(song_items[i])
    /\ MatchReturned => ~NoKeywordNoArtist(song_match[1].best[1])

---------------------------------------------------------------------------
(* The audio cache directory.  A file name is prefix + id + "." + ext; a   *)
(* directory maps each name to None, or to Some of the file's size in      *)
(* bytes, its st_atime and st_mtime, and the video whose audio it holds.   *)

VideoIds == {"a", "b", "c"}

MiB == 1024 * 1024

CACHE_DURATION == 3600

CACHE_SIZE_LIMIT == 500 * MiB

\* The size of the mp3 the converter makes of a video, and of a partial download.
audio_size(video) ==
    CASE video = "a" -> 300 * MiB
      [] video = "b" -> 250 * MiB
      [] OTHER       -> 200 * MiB

part_size(video) == 100 * MiB

\* output_path of YouTubeService.get_audio: audio_cache/<video_id>.mp3
output_path(video_id) == [prefix |-> "", id |-> video_id, ext |-> "mp3"]

\* temp_path of prepare_audio: <TEMP_FOLDER>/temp_<video_id>.mp3
temp_path(video_id) == [prefix |-> "temp_", id |-> video_id, ext |-> "mp3"]

exists(dir, path) == dir[path] # None

getsize(dir, path) == dir[path][1].size

remove(dir, path) == [dir EXCEPT ![path] = None]

\* os.listdir: the names in the directory, in the order the system lists them
ListingOrder ==
    << [prefix |-> "", id |-> "a", ext |-> "mp3"],
       [prefix |-> "", id |-> "a", ext |-> "part"],
       [prefix |-> "", id |-> "b", ext |-> "mp3"],
       [prefix |-> "", id |-> "b", ext |-> "part"],
       [prefix |-> "temp_", id |-> "a", ext |-> "m4a"],
       [prefix |-> "temp_", id |-> "a", ext |-> "mp3"],
       [prefix |-> "temp_", id |-> "a", ext |-> "part"],
       [prefix |-> "temp_", id |-> "a", ext |-> "webm"],
       [prefix |-> "temp_", id |-> "b", ext |-> "m4a"],
       [prefix |-> "temp_", id |-> "b", ext |-> "mp3"],
       [prefix |-> "temp_", id |-> "b", ext |-> "part"],
       [prefix |-> "temp_", id |-> "b", ext |-> "webm"],
       [prefix |-> "", id |-> "c", ext |-> "mp3"],
       [prefix |-> "", id |-> "c", ext |-> "part"],
       [prefix |-> "temp_", id |-> "c", ext |-> "m4a"],
       [prefix |-> "temp_", id |-> "c", ext |-> "mp3"],
       [prefix |-> "temp_", id |-> "c", ext |-> "part"],
       [prefix |-> "temp_", id |-> "c", ext |-> "webm"] >>

FileNames == {ListingOrder[i] : i \in 1..Len(ListingOrder)}

listdir(dir) == SelectSeq(ListingOrder, LAMBDA path : exists(dir, path))

\* The sum of the sizes of the files of dir that paths names.
RECURSIVE total_size(_, _)
total_size(dir, paths) ==
    IF paths = <<>> THEN 0
    ELSE getsize(dir, Head(paths)) + total_size(dir, Tail(paths))

\* get_cache_info: the .mp3 files of the directory, in listing order
cached_files(dir) == SelectSeq(listdir(dir), LAMBDA path : path.ext = "mp3")

\* get_cache_info: cache_size
cache_size_of(dir) == total_size(dir, cached_files(dir))

\* list.sort(key=lambda x: x['accessed']): stable, oldest first
RECURSIVE insert_by_accessed(_, _, _)
insert_by_accessed(dir, sorted, path) ==
    IF sorted = <<>> THEN <<path>>
    ELSE IF dir[path][1].atime < dir[Head(sorted)][1].atime
    THEN <<path>> \o sorted
    ELSE <<Head(sorted)>> \o insert_by_accessed(dir, Tail(sorted), path)

RECURSIVE sort_by_accessed(_, _)
sort_by_accessed(dir, paths) ==
    IF paths = <<>> THEN <<>>
    ELSE insert_by_accessed(dir,
                            sort_by_accessed(dir, SubSeq(paths, 1, Len(paths) - 1)),
                            paths[Len(paths)])

\* A slip of the loop: no try/except, so a failing os.remove ends the pass.
RECURSIVE evict_loop_abort_on_error(_, _, _, _, _, _)
evict_loop_abort_on_error(dir, files, k, cache_size, log, failing) ==
    IF k > Len(files) THEN [dir |-> dir, removed |-> log.removed, failed |-> log.failed]
    ELSE IF files[k] \in failing
    THEN [dir |-> dir, removed |-> log.removed, failed |-> Append(log.failed, files[k])]
    ELSE IF cache_size - getsize(dir, files[k]) <= CACHE_SIZE_LIMIT
    THEN [dir |-> remove(dir, files[k]),
          removed |-> Append(log.removed, files[k]), failed |-> log.failed]
    ELSE evict_loop_abort_on_error(remove(dir, files[k]), files, k + 1,
                                   cache_size - getsize(dir, files[k]),
                                   [log EXCEPT !.removed = Append(@, files[k])], failing)

\* A slip of the loop: the break left out.
RECURSIVE evict_loop_no_break(_, _, _, _, _, _)
evict_loop_no_break(dir, files, k, cache_size, log, failing) ==
    IF k > Len(files) THEN [dir |-> dir, removed |-> log.removed, failed |-> log.failed]
    ELSE IF files[k] \in failing
    THEN evict_loop_no_break(dir, files, k + 1, cache_size,
                             [log EXCEPT !.failed = Append(@, files[k])], failing)
    ELSE evict_loop_no_break(remove(dir, files[k]), files, k + 1,
                             cache_size - getsize(dir, files[k]),
                             [log EXCEPT !.removed = Append(@, files[k])], failing)

\* The loop of cleanup_old_cache from file k of the sorted list on; os.remove
\* raises for the paths in failing.  log lists the files deleted and the files
\* whose deletion failed, in order.
RECURSIVE evict_loop(_, _, _, _, _, _)
evict_loop(dir, files, k, cache_size, log, failing) ==
    IF k > Len(files) THEN [dir |-> dir, removed |-> log.removed, failed |-> log.failed]
    ELSE IF files[k] \in failing
    THEN evict_loop(dir, files, k + 1, cache_size,
                    [log EXCEPT !.failed = Append(@, files[k])], failing)
    ELSE IF cache_size - getsize(dir, files[k]) <= CACHE_SIZE_LIMIT
    THEN [dir |-> remove(dir, files[k]),
          removed |-> Append(log.removed, files[k]), failed |-> log.failed]
    ELSE evict_loop(remove(dir, files[k]), files, k + 1,
                    cache_size - getsize(dir, files[k]),
                    [log EXCEPT !.removed = Append(@, files[k])], failing)

cleanup_old_cache(dir, failing) ==
    IF cache_size_of(dir) > CACHE_SIZE_LIMIT
    THEN evict_loop(dir, sort_by_accessed(dir, cached_files(dir)), 1,
                    cache_size_of(dir), [removed |-> <<>>, failed |-> <<>>], failing)
    ELSE [dir |-> dir, removed |-> <<>>, failed |-> <<>>]

\* cleanup_temp_files: the four temp_<video_id> files, each removed when it
\* exists; os.remove raises for the paths in failing.
files_to_cleanup(video_id) ==
    << [prefix |-> "temp_", id |-> video_id, ext |-> "part"],
       [prefix |-> "temp_", id |-> video_id, ext |-> "mp3"],
       [prefix |-> "temp_", id |-> video_id, ext |-> "webm"],
       [prefix |-> "temp_", id |-> video_id, ext |-> "m4a"] >>

RECURSIVE cleanup_loop(_, _, _, _)
cleanup_loop(dir, paths, k, failing) ==
    IF k > Len(paths) THEN dir
    ELSE IF exists(dir, paths[k]) /\ paths[k] \notin failing
    THEN cleanup_loop(remove(dir, paths[k]), paths, k + 1, failing)
    ELSE cleanup_loop(dir, paths, k + 1, failing)

cleanup_temp_files(dir, video_id, failing) ==
    cleanup_loop(dir, files_to_cleanup(video_id), 1, failing)

\* What ydl.download can do, the converter being set to write dest:
\*   "ok"      it writes the mp3 and returns
\*   "empty"   it writes an empty mp3 and returns
\*   "none"    it returns and has written nothing
\*   "error"   it raises and has written nothing
\*   "partial" it raises and leaves a .part file beside dest
DownloadOutcomes == {"ok", "empty", "none", "error", "partial"}

download_raises(outcome) == outcome \in {"error", "partial"}

written_file(size, video, time) ==
    Some([size |-> size, atime |-> time, mtime |-> time, video |-> video])

download(dir, dest, video, outcome, time) ==
    CASE outcome = "ok" ->
            [dir EXCEPT ![dest] = written_file(audio_size(video), video, time)]
      [] outcome = "empty" ->
            [dir EXCEPT ![dest] = written_file(0, video, time)]
      [] outcome = "partial" ->
            [dir EXCEPT ![[dest EXCEPT !.ext = "part"]] =
                            written_file(part_size(video), video, time)]
      [] OTHER -> dir

---------------------------------------------------------------------------
(* Audio requests.  Each thread serves one request at a time; req[t] is    *)
(* what thread t is doing: the handler (op), its video_id, where it stands *)
(* (pc), the outtmpl its downloader was built with (target), and what it   *)
(* has done so far (steps).  after is Some(path) while the request is a    *)
(* get_audio that began right after a get_audio of the same id returned    *)
(* path, with no step of any other request since; wrote is the time at     *)
(* which the request's downloader wrote its mp3, 0 when it has not.        *)

Threads == {1, 2}

\* How many requests are begun when they are served one at a time, when they
\* are served concurrently, and after a restart on a cache directory that
\* earlier runs filled.
MaxRequests == 3

MaxRaceRequests == 3

MaxRestartRequests == 1

\* The latest access time of a file that earlier runs left.
MaxAge == 2

MaxTicks == 1

\* ydl_opts['outtmpl'] as __init__ sets it: audio_cache/%(id)s.%(ext)s
DefaultTemplate == "%(id)s"

IdleRequest ==
    [op |-> "idle", id |-> "-", pc |-> "idle", target |-> "-",
     steps |-> <<>>, after |-> None, wrote |-> 0]

\* A new request is served by the first thread that is free.
FreeThread(t) ==
    /\ req[t].op = "idle"
    /\ \A u \in Threads : u < t => req[u].op # "idle"
    /\ concurrent \/ \A u \in Threads : req[u].op = "idle"
    /\ nreq > 0

\* req with thread t now at r, and every other request marked as interleaved with.
Step(t, r) ==
    [u \in Threads |-> IF u = t THEN r ELSE [req[u] EXCEPT !.after = None]]

\* What a handler that has just returned or raised did.
Completed(r, miss, ok, path) ==
    Some([op |-> r.op, id |-> r.id, miss |-> miss, ok |-> ok, path |-> path,
          steps |-> r.steps, after |-> r.after])

CacheIdle ==
    /\ cache_dir = [path \in FileNames |-> None]
    /\ clock = 0
    /\ outtmpl = DefaultTemplate
    /\ req = [t \in Threads |-> IdleRequest]
    /\ nreq = 0
    /\ nticks = 0
    /\ concurrent = FALSE
    /\ done = None
    /\ last_evict = None

\* YouTubeService.get_audio up to the outtmpl assignment: the cache test, and on
\* a miss ydl_opts['outtmpl'] = audio_cache/<video_id>.%(ext)s
GetAudioStart(t, video_id) ==
    /\ FreeThread(t)
    /\ nreq' = nreq - 1
    /\ LET path  == output_path(video_id)
           after == IF /\ done # None
                       /\ done[1].op = "get_audio"
                       /\ done[1].ok
                       /\ done[1].id = video_id
                    THEN done[1].path ELSE None
           r     == [IdleRequest EXCEPT !.op = "get_audio", !.id = video_id,
                                        !.after = after]
       IN  IF exists(cache_dir, path) /\ getsize(cache_dir, path) > 0
           THEN /\ done' = Completed(r, FALSE, TRUE, Some(path))
                /\ req' = Step(t, IdleRequest)
                /\ UNCHANGED outtmpl
           ELSE /\ done' = None
                /\ req' = Step(t, [r EXCEPT !.pc = "ctor"])
                /\ outtmpl' = video_id
    /\ last_evict' = None
    /\ UNCHANGED <<cache_dir, clock, nticks, concurrent, cleanVars, matchVars,
                   filterVars, searchVars>>

\* with yt_dlp.YoutubeDL(self.ydl_opts) as ydl: the downloader takes the
\* outtmpl that ydl_opts holds now
GetAudioDownloader(t) ==
    /\ req[t].op = "get_audio"
    /\ req[t].pc = "ctor"
    /\ req' = Step(t, [req[t] EXCEPT !.target = outtmpl, !.pc = "download"])
    /\ done' = None
    /\ last_evict' = None
    /\ UNCHANGED <<cache_dir, clock, outtmpl, nreq, nticks, concurrent,
                   cleanVars, matchVars, filterVars, searchVars>>

\* ydl.download([...]); when it raises, the except clause raises ValueError
GetAudioDownload(t, outcome) ==
    /\ req[t].op = "get_audio"
    /\ req[t].pc = "download"
    /\ LET dest == IF req[t].target = DefaultTemplate
                   THEN output_path(req[t].id)
                   ELSE output_path(req[t].target)
           r    == [req[t] EXCEPT !.steps = Append(@, "download"),
                                  !.wrote = IF outcome \in {"ok", "empty"}
                                            THEN clock + 1 ELSE 0]
       IN  /\ cache_dir' = download(cache_dir, dest, req[t].id, outcome, clock + 1)
           /\ IF download_raises(outcome)
              THEN /\ done' = Completed(r, TRUE, FALSE, None)
                   /\ req' = Step(t, IdleRequest)
              ELSE /\ done' = None
                   /\ req' = Step(t, [r EXCEPT !.pc = "verify"])
    /\ clock' = clock + 1
    /\ last_evict' = None
    /\ UNCHANGED <<outtmpl, nreq, nticks, concurrent, cleanVars, matchVars,
                   filterVars, searchVars>>

\* if os.path.exists(output_path): return output_path; else raise ValueError
GetAudioVerify(t) ==
    /\ req[t].op = "get_audio"
    /\ req[t].pc = "verify"
    /\ LET path == output_path(req[t].id) IN
       done' = IF exists(cache_dir, path)
               THEN Completed(req[t], TRUE, TRUE, Some(path))
               ELSE Completed(req[t], TRUE, FALSE, None)
    /\ req' = Step(t, IdleRequest)
    /\ last_evict' = None
    /\ UNCHANGED <<cache_dir, clock, outtmpl, nreq, nticks, concurrent,
                   cleanVars, matchVars, filterVars, searchVars>>

\* The miss of prepare_audio: cleanup_temp_files(video_id), then
\* cleanup_old_cache().  before is the directory the eviction pass found.
prepare_miss(dir, video_id, failing) ==
    LET cleaned_dir == cleanup_temp_files(dir, video_id, failing)
        evicted     == cleanup_old_cache(cleaned_dir, failing)
    IN  [dir |-> evicted.dir, steps |-> <<"cleanup", "evict">>,
         pass |-> [before |-> cleaned_dir, removed |-> evicted.removed,
                   failed |-> evicted.failed]]

\* prepare_audio up to the download: the recent-file test, and on a miss
\* cleanup_temp_files, cleanup_old_cache and get_best_audio_format.  os.remove
\* raises for the paths in failing; has_format is whether a format was found.
PrepareAudioStart(t, video_id, failing, has_format) ==
    /\ FreeThread(t)
    /\ nreq' = nreq - 1
    /\ LET path == temp_path(video_id)
           r    == [IdleRequest EXCEPT !.op = "prepare_audio", !.id = video_id]
       IN  IF /\ exists(cache_dir, path)
              /\ clock - cache_dir[path][1].mtime < CACHE_DURATION
           THEN /\ done' = Completed(r, FALSE, TRUE, Some(path))
                /\ req' = Step(t, IdleRequest)
                /\ last_evict' = None
                /\ UNCHANGED cache_dir
           ELSE LET missed == prepare_miss(cache_dir, video_id, failing)
                    r2     == [r EXCEPT !.steps = missed.steps]
                IN  /\ cache_dir' = missed.dir
                    /\ last_evict' = IF "evict" \in {missed.steps[i] :
                                                        i \in 1..Len(missed.steps)}
                                     THEN Some(missed.pass) ELSE None
                    /\ IF has_format
                       THEN /\ done' = None
                            /\ req' = Step(t, [r2 EXCEPT !.pc = "download"])
                       ELSE /\ done' = Completed(r2, TRUE, FALSE, None)
                            /\ req' = Step(t, IdleRequest)
    /\ UNCHANGED <<clock, outtmpl, nticks, concurrent, cleanVars, matchVars,
                   filterVars, searchVars>>

\* ydl.download([...]) of prepare_audio.  Its ydl_opts carry no 'outtmpl', so
\* the downloader names its output by its own default, '<title> [<id>].<ext>'
\* in the working directory: nothing is written in the cache directory, and
\* temp_path is not created.  The handler answers 'success' when the call
\* returns and an error when it raises.
PrepareAudioDownload(t, outcome) ==
    /\ req[t].op = "prepare_audio"
    /\ req[t].pc = "download"
    /\ LET r == [req[t] EXCEPT !.steps = Append(@, "download")]
       IN  done' = Completed(r, TRUE, ~download_raises(outcome), None)
    /\ req' = Step(t, IdleRequest)
    /\ last_evict' = None
    /\ UNCHANGED <<cache_dir, clock, outtmpl, nreq, nticks, concurrent,
                   cleanVars, matchVars, filterVars, searchVars>>

\* An hour goes by with no request taking a step.
TimePasses ==
    /\ nticks < MaxTicks
    /\ nticks' = nticks + 1
    /\ clock' = clock + CACHE_DURATION
    /\ req' = [u \in Threads |-> [req[u] EXCEPT !.after = None]]
    /\ done' = None
    /\ last_evict' = None
    /\ UNCHANGED <<cache_dir, outtmpl, nreq, concurrent, cleanVars, matchVars,
                   filterVars, searchVars>>

---------------------------------------------------------------------------
(* The claims about the cache.                                             *)

\* The existing files of dir, .mp3 or not.
all_files_size(dir) == total_size(dir, listdir(dir))

\* The eviction pass of the last step found the cache above the quota.
PassOverQuota ==
    /\ last_evict # None
    /\ cache_size_of(last_evict[1].before) > CACHE_SIZE_LIMIT

\* What C3 says of a pass that found the cache above the quota: the cached files
\* now sum to at most the quota, no surviving file was accessed earlier than a
\* deleted one, and the last deletion was needed.
PassEvictsOldest ==
    LET pass == last_evict[1] IN
    /\ cache_size_of(cache_dir) <= CACHE_SIZE_LIMIT
    /\ \A d \in Range(pass.removed) : \A s \in Range(cached_files(cache_dir)) :
           pass.before[s][1].atime >= pass.before[d][1].atime
    /\ pass.removed # <<>>
    /\ cache_size_of(cache_dir)
          + getsize(pass.before, pass.removed[Len(pass.removed)]) > CACHE_SIZE_LIMIT

\* C3: whenever the eviction pass runs on a cache above the quota, on
\* return the cached files sum to at most the quota, the deleted files are the
\* oldest by access time, and deletion stopped as soon as the total was within
\* the quota.
C3_EvictsOldestToQuota == PassOverQuota => PassEvictsOldest

\* C3 amended: the same, for a pass in which every os.remove succeeds.
C3_EvictsOldestWhenRemovesSucceed ==
    (PassOverQuota /\ last_evict[1].failed = <<>>) => PassEvictsOldest

\* A pass found the cache above the quota, deleted two files without a failure
\* and left a file.
C3_Witness ==
    /\ PassOverQuota
    /\ last_evict[1].failed = <<>>
    /\ Len(last_evict[1].removed) = 2
    /\ cached_files(cache_dir) # <<>>

\* C4: whenever no download is in progress, the files of the cache directory sum
\* to at most the quota.
C4_WithinQuotaAtRest ==
    (\A t \in Threads : req[t].pc # "download")
        => all_files_size(cache_dir) <= CACHE_SIZE_LIMIT

\* C5: a get_audio(id) that immediately follows a successful get_audio(id) does
\* not invoke the downloader and returns the same path.
C5_SecondCallIsHit ==
    (done # None /\ done[1].op = "get_audio" /\ done[1].after # None) =>
        /\ "download" \notin Range(done[1].steps)
        /\ done[1].ok
        /\ done[1].path = done[1].after

\* C6: a get_audio(id) on a cache miss either returns the canonical path with a
\* non-empty file there, or raises with no file left at the canonical path.
C6_MissReturnsFileOrCleansUp ==
    (done # None /\ done[1].op = "get_audio" /\ done[1].miss) =>
        LET path == output_path(done[1].id) IN
        IF done[1].ok
        THEN /\ done[1].path = Some(path)
             /\ exists(cache_dir, path)
             /\ getsize(cache_dir, path) > 0
        ELSE ~exists(cache_dir, path)

\* The requests in progress and the one just completed.
RequestsSeen == {req[t] : t \in Threads} \cup Range(done)

\* The request invoked the downloader after a cleanup and then an eviction pass
\* of its own, or has not invoked it.
DownloadAfterCleanupAndEviction(r) ==
    "download" \in Range(r.steps) => r.steps = <<"cleanup", "evict", "download">>

\* No eviction pass ran in a request that was a cache hit.
NoEvictionOnHit ==
    (done # None /\ ~done[1].miss) => "evict" \notin Range(done[1].steps)

\* C7: on every cache miss the downloader is invoked only after the
\* request's cleanup and then its eviction pass, and no eviction pass runs on a hit.
C7_CleanupEvictionThenDownload ==
    /\ \A r \in RequestsSeen : DownloadAfterCleanupAndEviction(r)
    /\ NoEvictionOnHit

\* Two get_audio requests of the same id have both found no cached file and
\* both have had their downloader write the mp3.
BothDownloaded(t, u) ==
    /\ t # u
    /\ req[t].op = "get_audio" /\ req[u].op = "get_audio"
    /\ req[t].id = req[u].id
    /\ req[t].pc = "verify" /\ req[u].pc = "verify"
    /\ req[t].wrote > 0 /\ req[u].wrote > 0

\* C12: when two concurrent get_audio requests of the same id both miss the
\* cache and both run their download, the file at the canonical path is the one
\* that the later of the two writes left.
C12_LastWriterWins ==
    \A t, u \in Threads :
        (BothDownloaded(t, u) /\ req[t].wrote < req[u].wrote) =>
            /\ exists(cache_dir, output_path(req[u].id))
            /\ cache_dir[output_path(req[u].id)][1].mtime = req[u].wrote

\* The files of the cache directory that carry another id than video_id.
PathsOfOtherIds(video_id) == {path \in FileNames : path.id # video_id}

\* Thread t is a get_audio request whose ydl.download call ends in this step.
DownloadEnds(t) ==
    /\ req[t].op = "get_audio"
    /\ req[t].pc = "download"
    /\ req'[t].pc # "download"

\* C21: concurrent get_audio calls of different ids on the one service do not
\* interfere: under every interleaving the download that a call started for its
\* id writes at that id's canonical path only, and leaves every file that
\* carries another id as it was.
C21_DownloadWritesOwnPathOnly ==
    [][\A t \in Threads :
          DownloadEnds(t) =>
              /\ req[t].target \in {DefaultTemplate, req[t].id}
              /\ \A path \in PathsOfOtherIds(req[t].id) :
                     cache_dir'[path] = cache_dir[path]]_vars

\* A deletion failed in the eviction pass of the last step.
PassWithFailure ==
    /\ last_evict # None
    /\ last_evict[1].failed # <<>>

\* The files the pass deleted or failed to delete, and the cached files it did
\* not come to.
TouchedByPass == Range(last_evict[1].removed) \cup Range(last_evict[1].failed)

UntouchedByPass == Range(cached_files(last_evict[1].before)) \ TouchedByPass

\* The request that ran the pass goes on after it: it is about to download, or
\* it has answered that no audio format was found.
RequestWentOn ==
    \/ \E t \in Threads : /\ req[t].op = "prepare_audio"
                          /\ req[t].pc = "download"
                          /\ req[t].steps = <<"cleanup", "evict">>
    \/ /\ done # None
       /\ done[1].op = "prepare_audio"
       /\ done[1].steps = <<"cleanup", "evict">>

\* C13: when a deletion fails during an eviction pass, the file stays, the pass
\* goes on to the next-oldest files and stops before the last of them only once
\* the files that are left, the undeleted one included, are within the quota;
\* the request that ran the pass goes on.
C13_FailedDeletionSkipped ==
    PassWithFailure =>
        /\ \A f \in Range(last_evict[1].failed) : exists(cache_dir, f)
        /\ \A p \in TouchedByPass : \A q \in UntouchedByPass :
              last_evict[1].before[p][1].atime <= last_evict[1].before[q][1].atime
        /\ UntouchedByPass # {} =>
              /\ last_evict[1].removed # <<>>
              /\ cache_size_of(cache_dir) <= CACHE_SIZE_LIMIT
        /\ RequestWentOn

\* The deletion of the oldest file failed, the pass deleted a newer file and
\* the request is about to download.
C13_Witness ==
    /\ PassWithFailure
    /\ \E f \in Range(last_evict[1].failed) : \E d \in Range(last_evict[1].removed) :
          last_evict[1].before[f][1].atime < last_evict[1].before[d][1].atime
    /\ \E t \in Threads : req[t].op = "prepare_audio" /\ req[t].pc = "download"

\* C17: a cache hit of get_audio records a new last-access time for the cached
\* file: when the call returns, the file's st_atime is the time of the hit.
C17_HitRecordsAccess ==
    (done # None /\ done[1].op = "get_audio" /\ ~done[1].miss) =>
        cache_dir[output_path(done[1].id)][1].atime = clock

---------------------------------------------------------------------------
(* YouTubeService.search_videos: the request to the provider, its retries  *)
(* and the rotation of the API keys.  A recursive call of search_videos    *)
(* runs in place of its caller, which returns or re-raises what it gives.  *)

MaxKeys == 3

MaxRetries == 2

MaxSearches == 2

\* HttpError statuses the provider answers with.
HttpStatuses == {"403", "429", "500"}

\* What self.youtube.search().list(...).execute() does: it returns the items,
\* raises HttpError with a status, or raises SocketTimeoutError.
ProviderResponses == {"ok", "timeout"} \cup HttpStatuses

switch_api_key(index, key_count) == (index + 1) % key_count

\* A slip of handle_api_error: the test for the last key left out.
handle_api_error_unguarded(status, index, key_count) ==
    IF status \in {"403", "429"}
    THEN [handled |-> TRUE, index |-> switch_api_key(index, key_count)]
    ELSE [handled |-> FALSE, index |-> index]

\* handle_api_error for an HttpError of the status: what it returns, and
\* current_key_index afterwards.
handle_api_error(status, index, key_count) ==
    IF status \in {"403", "429"} /\ index < key_count - 1
    THEN [handled |-> TRUE, index |-> switch_api_key(index, key_count)]
    ELSE [handled |-> FALSE, index |-> index]

\* A slip of the except clause: "retries >= 0" for "retries > 0".
on_search_error_retries_at_zero(response, handled, retries_now) ==
    IF response \in HttpStatuses
    THEN IF handled /\ retries_now >= 0 THEN "retry" ELSE "raise"
    ELSE IF retries_now >= 0 THEN "retry" ELSE "raise"

\* The except clause of the request: search again with retries - 1, or raise
\* ValueError("Search failed. Please try again.").
on_search_error(response, handled, retries_now) ==
    IF response \in HttpStatuses
    THEN IF handled /\ retries_now > 0 THEN "retry" ELSE "raise"
    ELSE IF retries_now > 0 THEN "retry" ELSE "raise"

\* search_videos(query, retries=r) is called; an empty query raises at once.
SearchVideos(r, empty_query) ==
    /\ search_pc # "request"
    /\ searches_left > 0
    /\ searches_left' = searches_left - 1
    /\ retries' = r
    /\ first_retries' = r
    /\ requests' = 0
    /\ search_response' = "none"
    /\ search_pc' = IF empty_query THEN "raised" ELSE "request"
    /\ UNCHANGED <<api_key_count, current_key_index, cleanVars, matchVars,
                   filterVars, cacheVars>>

\* The request is sent and the provider answers.  build_ok: build(...) in
\* initialize_service returns; processing_ok: _get_best_match or
\* _filter_results returns.
ProviderAnswers(response, build_ok, processing_ok) ==
    /\ search_pc = "request"
    /\ requests' = requests + 1
    /\ search_response' = response
    /\ IF response = "ok"
       THEN /\ search_pc' = IF processing_ok THEN "returned" ELSE "raised"
            /\ UNCHANGED <<current_key_index, retries>>
       ELSE LET error == IF response \in HttpStatuses
                         THEN handle_api_error(response, current_key_index,
                                               api_key_count)
                         ELSE [handled |-> FALSE, index |-> current_key_index]
            IN  /\ current_key_index' = error.index
                /\ IF (error.handled /\ ~build_ok)
                      \/ on_search_error(response, error.handled, retries) = "raise"
                   THEN search_pc' = "raised" /\ UNCHANGED retries
                   ELSE search_pc' = "request" /\ retries' = retries - 1
    /\ UNCHANGED <<api_key_count, first_retries, searches_left, cleanVars,
                   matchVars, filterVars, cacheVars>>

\* The provider answers in one of the ways it can.
ProviderResponds ==
    \E response \in ProviderResponses, build_ok \in BOOLEAN, processing_ok \in BOOLEAN :
        ProviderAnswers(response, build_ok, processing_ok)

\* C19: a call search_videos(query, retries=r) sends at most r + 1 requests to
\* the provider, whatever it answers, and then returns or raises.
C19_AtMostRetriesPlusOneRequests ==
    /\ [](requests <= first_retries + 1)
    /\ (search_pc = "request") ~> (search_pc \in {"returned", "raised"})

\* A call used all its retries: it sent r + 1 requests, r > 0, and raised.
C19_Witness ==
    /\ first_retries > 0
    /\ requests = first_retries + 1
    /\ search_pc = "raised"

\* C20: current_key_index stays within 0..len(api_keys)-1 and never decreases;
\* it advances by exactly one, on a 403 or 429 answered while the current key
\* is not the last; a 403 or 429 on the last key makes the search fail and
\* leaves the index as it is.
C20_KeyIndexAdvancesWithoutWrapping ==
    /\ [](current_key_index \in 0..(api_key_count - 1))
    /\ [][/\ current_key_index' >= current_key_index
          /\ current_key_index' # current_key_index =>
                /\ current_key_index' = current_key_index + 1
                /\ search_response' \in {"403", "429"}
                /\ current_key_index < api_key_count - 1
          /\ (/\ search_pc = "request"
              /\ search_response' \in {"403", "429"}
              /\ requests' = requests + 1
              /\ current_key_index = api_key_count - 1) =>
                /\ current_key_index' = current_key_index
                /\ search_pc' = "raised"]_vars

\* With three keys a search got a 403 or 429 twice, went on to the third and
\* last key, and is about to send its third request.
C20_Witness ==
    /\ api_key_count = 3
    /\ current_key_index = 2
    /\ search_pc = "request"
    /\ requests = 2
    /\ search_response \in {"403", "429"}

---------------------------------------------------------------------------
(* Titles for _clean_title: up to MaxPieces fragments put end to end.      *)

MaxPieces == 3

TitlePieces ==
    { <<"S","o","n","g">>, <<" ">>, <<"(","H","D",")">>, <<"(">>, <<"H","D",")">> }

AppendPiece ==
    /\ cleaned = <<>>
    /\ npieces < MaxPieces
    /\ \E p \in TitlePieces : ctitle' = ctitle \o p
    /\ npieces' = npieces + 1
    /\ UNCHANGED <<cleaned, matchVars, filterVars, cacheVars, searchVars>>

\* x = _clean_title(title); then _clean_title(x)
CleanTitle ==
    /\ Len(cleaned) < 2
    /\ cleaned' = Append(cleaned,
                         _clean_title(IF cleaned = <<>> THEN ctitle
                                      ELSE cleaned[Len(cleaned)]))
    /\ UNCHANGED <<ctitle, npieces, matchVars, filterVars, cacheVars,
                   searchVars>>

\* A character of a decoration token, as opposed to title text.
BracketChars == {"(", ")", "[", "]"}

\* Position i of s lies inside an occurrence of one of the replacements.
InToken(s, i) ==
    \E k \in 1..Len(replacements) :
        \E j \in 1..i :
            /\ i < j + Len(replacements[k])
            /\ j + Len(replacements[k]) - 1 <= Len(s)
            /\ SubSeq(s, j, j + Len(replacements[k]) - 1) = replacements[k]

\* Every bracket of s belongs to a complete decoration token.
WholeTokens(s) == \A i \in 1..Len(s) : s[i] \in BracketChars => InToken(s, i)

\* C10 as stated: _clean_title is idempotent on every title,
\* _clean_title(_clean_title(x)) = _clean_title(x).
C10_Idempotent == Len(cleaned) = 2 => cleaned[2] = cleaned[1]

\* C10 amended: _clean_title(_clean_title(x)) = _clean_title(x) for every title x
\* whose brackets all belong to complete decoration tokens.
C10_IdempotentOnWholeTokens ==
    (Len(cleaned) = 2 /\ WholeTokens(ctitle)) => cleaned[2] = cleaned[1]

\* A title with a decoration token between two words was cleaned twice, and the
\* first cleaning removed the token.
C10_Witness ==
    /\ Len(cleaned) = 2
    /\ WholeTokens(ctitle)
    /\ str_contains(<<"(","H","D",")">>, ctitle)
    /\ cleaned[1] # ctitle
    /\ cleaned[1] # <<>>

---------------------------------------------------------------------------
(* The specifications: each part of the model with the other parts at rest. *)

InitClean == CleanIdle /\ MatchIdle /\ FilterIdle /\ CacheIdle /\ SearchIdle

NextClean == AppendPiece \/ CleanTitle

SpecClean == InitClean /\ [][NextClean]_vars

InitMatch ==
    /\ song_query \in Queries
    /\ song_items = <<>>
    /\ song_match = None
    /\ CleanIdle /\ FilterIdle /\ CacheIdle /\ SearchIdle

NextMatch == AddCandidate \/ GetBestMatch

SpecMatch == InitMatch /\ [][NextMatch]_vars

InitFilter ==
    /\ filter_type \in SearchTypes
    /\ filter_items = <<>>
    /\ filter_pos = 0
    /\ filter_skips = 0
    /\ filter_result = None
    /\ CleanIdle /\ MatchIdle /\ CacheIdle /\ SearchIdle

NextFilter == TakeItem \/ SkipItem \/ FilterResults

SpecFilter == InitFilter /\ [][NextFilter]_vars

\* The directory is new and empty (app.py creates it when it is missing).
InitCache ==
    /\ concurrent = FALSE
    /\ nreq = MaxRequests
    /\ cache_dir = [path \in FileNames |-> None]
    /\ clock = 0
    /\ outtmpl = DefaultTemplate
    /\ req = [t \in Threads |-> IdleRequest]
    /\ nticks = 0
    /\ done = None
    /\ last_evict = None
    /\ CleanIdle /\ MatchIdle /\ FilterIdle /\ SearchIdle

NextCache ==
    \/ \E t \in Threads, video_id \in VideoIds : GetAudioStart(t, video_id)
    \/ \E t \in Threads : GetAudioDownloader(t)
    \/ \E t \in Threads, outcome \in DownloadOutcomes : GetAudioDownload(t, outcome)
    \/ \E t \in Threads : GetAudioVerify(t)
    \/ \E t \in Threads, video_id \in VideoIds, has_format \in BOOLEAN :
          \E failing \in SUBSET {path \in FileNames : exists(cache_dir, path)} :
              PrepareAudioStart(t, video_id, failing, has_format)
    \/ \E t \in Threads, outcome \in DownloadOutcomes : PrepareAudioDownload(t, outcome)
    \/ TimePasses

SpecCache == InitCache /\ [][NextCache]_vars

InitRace ==
    /\ concurrent = TRUE
    /\ nreq = MaxRaceRequests
    /\ cache_dir = [path \in FileNames |-> None]
    /\ clock = 0
    /\ outtmpl = DefaultTemplate
    /\ req = [t \in Threads |-> IdleRequest]
    /\ nticks = 0
    /\ done = None
    /\ last_evict = None
    /\ CleanIdle /\ MatchIdle /\ FilterIdle /\ SearchIdle

SpecRace == InitRace /\ [][NextCache]_vars

\* The directory exists already (app.py keeps it then): it holds the mp3 files
\* that get_audio calls of earlier runs left, whole or empty.
LeftoverFiles(video) ==
    {None} \cup {written_file(size, video, time) :
                    size \in {0, audio_size(video)}, time \in 1..MaxAge}

LeftoverDirs ==
    LET left == {f \in [VideoIds -> UNION {LeftoverFiles(v) : v \in VideoIds}] :
                    \A v \in VideoIds : f[v] \in LeftoverFiles(v)}
    IN  {[path \in FileNames |->
             IF path = output_path(path.id) THEN f[path.id] ELSE None] :
         f \in left}

InitRestart ==
    /\ concurrent = FALSE
    /\ nreq = MaxRestartRequests
    /\ cache_dir \in LeftoverDirs
    /\ clock = MaxAge
    /\ outtmpl = DefaultTemplate
    /\ req = [t \in Threads |-> IdleRequest]
    /\ nticks = 0
    /\ done = None
    /\ last_evict = None
    /\ CleanIdle /\ MatchIdle /\ FilterIdle /\ SearchIdle

SpecRestart == InitRestart /\ [][NextCache]_vars

InitSearch ==
    /\ api_key_count \in 1..MaxKeys
    /\ current_key_index = 0
    /\ search_pc = "idle"
    /\ retries = 0
    /\ first_retries = 0
    /\ requests = 0
    /\ searches_left = MaxSearches
    /\ search_response = "none"
    /\ CleanIdle /\ MatchIdle /\ FilterIdle /\ CacheIdle

NextSearch ==
    \/ \E r \in 0..MaxRetries, empty_query \in BOOLEAN : SearchVideos(r, empty_query)
    \/ ProviderResponds

SpecSearch == InitSearch /\ [][NextSearch]_vars

\* The request to the provider is a blocking call that ends: with the items, an
\* HttpError or a timeout.
SpecSearchLive == SpecSearch /\ WF_vars(ProviderResponds)

=============================================================================
